---- MODULE Spec2Model ----
(***************************************************************************)
(* A model of yml2tex (src/yml2tex/__init__.py): the transformation of an  *)
(* ordered outline document into LaTeX Beamer markup.                      *)
(*                                                                         *)
(* Text is a sequence of one-character strings.  Python values whose type  *)
(* the code inspects are tagged records: PyStr, PyList, PyBool, PyNone;    *)
(* a pair of the PairLoader is Pair(key, value), its key a text.  Markup   *)
(* is a sequence of fragments [k |-> command, a |-> text]; a call either   *)
(* returns markup or raises: [exc |-> name, out |-> markup].               *)
(***************************************************************************)
EXTENDS Integers, Sequences, FiniteSets, TLC

VARIABLES
    text,     \* _escape_output: the local variable text
    arg,      \* _escape_output: the text first passed in
    todo,     \* _escape_output: keys of dic that iteritems() has not yielded yet
    epc,      \* _escape_output: "iter" | "returned" | "idle"
    calls,    \* how many times _escape_output was applied to its own result
    frames,   \* frame / main: the frame title in hand
    items,    \* frame / itemize / main: the items (or image options) in hand
    metas,    \* header / main: the metadata map (a function key -> value)
    files,    \* the set of file names open() can read
    hashrank, \* the order a dict yields its keys in (each key's rank)
    result,   \* what a called function returned or raised
    call,     \* "pending" | "returned" | "idle"
    file,     \* main: what yaml.load(file, Loader=PairLoader) yields
    doc,      \* main: the variable doc (rebound by the loops)
    it1,      \* main: iterator of the sections loop [l |-> list, i |-> next index]
    it2,      \* main: iterator of the subsections loop
    it3,      \* main: iterator of the frames loop
    out,      \* main: the accumulated markup
    pc,       \* main: position
    ret       \* main: what the caller received

vars == <<text, arg, todo, epc, calls, frames, items, metas, files, hashrank,
          result, call, file, doc, it1, it2, it3, out, pc, ret>>

escVars  == <<text, arg, todo, epc, calls>>
callVars == <<result, call>>
mainVars == <<file, doc, it1, it2, it3, out, pc, ret>>

-----------------------------------------------------------------------------
(* Python values *)

PyNone     == [t |-> "none"]
PyStr(s)   == [t |-> "str", s |-> s]
PyBool(b)  == [t |-> "bool", b |-> b]
PyList(l)  == [t |-> "list", l |-> l]
Pair(k, v) == [t |-> "tuple", k |-> k, val |-> v]

isinstance_list(x) == x.t = "list"

\* bool(x): the truth value Python gives x
Truthy(x) ==
    CASE x.t = "none" -> FALSE
      [] x.t = "bool" -> x.b
      [] x.t = "str"  -> x.s # <<>>
      [] x.t = "list" -> x.l # <<>>

\* "%s" % x
Format(x) ==
    CASE x.t = "none" -> <<"N", "o", "n", "e">>
      [] x.t = "bool" -> IF x.b THEN <<"T", "r", "u", "e">> ELSE <<"F", "a", "l", "s", "e">>
      [] x.t = "str"  -> x.s

\* a call's outcome
Ok(markup)  == [exc |-> "none", out |-> markup]
Raise(e)    == [exc |-> e, out |-> <<>>]
Tok(k, a)   == [k |-> k, a |-> a]
Lit(k)      == [k |-> k, a |-> <<>>]

\* b evaluated after a: the first exception raised wins, else the markup adds up
Then(a, b) ==
    IF a.exc # "none" THEN a
    ELSE IF b.exc # "none" THEN b
    ELSE Ok(a.out \o b.out)

\* all sequences over S of length at most n
BSeq(S, n) == UNION {[1..m -> S] : m \in 0..n}

-----------------------------------------------------------------------------
(* str methods *)

\* text.startswith(prefix)
startswith(s, prefix) ==
    /\ Len(s) >= Len(prefix)
    /\ SubSeq(s, 1, Len(prefix)) = prefix

\* text.replace(i, j) for a one-character i
RECURSIVE replace(_, _, _)
replace(s, i, j) ==
    IF s = <<>> THEN <<>>
    ELSE (IF Head(s) = i THEN j ELSE <<Head(s)>>) \o replace(Tail(s), i, j)

\* text.endswith(suffix)
endswith(s, suffix) ==
    /\ Len(s) >= Len(suffix)
    /\ SubSeq(s, Len(s) - Len(suffix) + 1, Len(s)) = suffix

\* text.split(' '): the pieces between single spaces, empty pieces included
RECURSIVE split(_)
split(s) ==
    IF \A n \in 1..Len(s) : s[n] # " " THEN <<s>>
    ELSE LET n == CHOOSE m \in 1..Len(s) :
                      s[m] = " " /\ \A q \in 1..(m - 1) : s[q] # " "
         IN  <<SubSeq(s, 1, n - 1)>> \o split(SubSeq(s, n + 1, Len(s)))

-----------------------------------------------------------------------------
(* _escape_output *)

\* a dic that lacks the entry for "_"
dicKeysNoUnderscore == {"&", "$", "%", "#", "{", "}"}

\* the keys of dic
dicKeys == {"&", "$", "%", "#", "_", "{", "}"}

\* a dic whose values hold two backslashes
dicDoubled(i) == <<"\\", "\\", i>>

\* dic[i]
dic(i) == <<"\\", i>>

\* the loop of _escape_output run over the keys in the order given
RECURSIVE escape_in_order(_, _)
escape_in_order(s, order) ==
    IF order = <<>> THEN s
    ELSE escape_in_order(replace(s, Head(order), dic(Head(order))), Tail(order))

\* one order iteritems() may yield the keys in
dicOrder == <<"#", "$", "%", "&", "_", "{", "}">>

_escape_output(s) == escape_in_order(s, dicOrder)

-----------------------------------------------------------------------------
(* section, subsection *)

section(ttl) == <<Tok("\\section", _escape_output(ttl))>>

subsection(ttl) == <<Tok("\\subsection", _escape_output(ttl))>>

-----------------------------------------------------------------------------
(* itemize *)

RECURSIVE itemize(_), itemize_loop(_), itemize_item(_), itemize_nested(_, _)

\* iter(x) for the values the loader produces: the elements, or TypeError
Iterable(x) == x.t \in {"list", "str"}
Elements(x) ==
    IF x.t = "str" THEN [n \in 1..Len(x.s) |-> PyStr(<<x.s[n]>>)] ELSE x.l

\* an entry whose text is not escaped
item_entry_raw(s) == <<Tok("\\item", s)>>

\* one bulleted entry
item_entry(s) == <<Tok("\\item", _escape_output(s))>>

\* the body of "for i in item" run for the n elements left: it reads item[0]
itemize_nested(item, n) ==
    IF n = 0 THEN Ok(<<>>)
    ELSE Then(Then(Ok(item_entry(item.l[1].k)), itemize(item.l[1].val)),
              itemize_nested(item, n - 1))

\* the body of "for item in items"
itemize_item(item) ==
    IF isinstance_list(item) THEN itemize_nested(item, Len(item.l))
    ELSE IF item.t = "str" THEN Ok(item_entry(item.s))
    ELSE Raise("AttributeError")

itemize_loop(seq) ==
    IF seq = <<>> THEN Ok(<<>>)
    ELSE Then(itemize_item(Head(seq)), itemize_loop(Tail(seq)))

itemize(its) ==
    IF ~Iterable(its) THEN Raise("TypeError")
    ELSE Then(Then(Ok(<<Lit("\\begin{itemize}")>>), itemize_loop(Elements(its))),
              Ok(<<Lit("\\end{itemize}")>>))

-----------------------------------------------------------------------------
(* code *)

\* the names bound in the module's namespace: the imports and the functions
ModuleNames ==
    {"highlight", "get_lexer_for_filename", "LatexFormatter", "yaml", "PairLoader",
     "section", "subsection", "frame", "_escape_output", "itemize", "code",
     "image", "header", "footer", "main"}

\* the file name patterns pygments has a lexer for (*.py, *.c)
LexerPatterns == {<<".", "p", "y">>, <<".", "c">>}

\* get_lexer_for_filename(filename): a lexer, or ClassNotFound
get_lexer_for_filename(filename) ==
    IF \E p \in LexerPatterns : endswith(filename, p)
    THEN [exc |-> "none", lexer |-> CHOOSE p \in LexerPatterns : endswith(filename, p)]
    ELSE [exc |-> "ClassNotFound", lexer |-> <<>>]

\* the except branch: get_lexer_by_name('text'), a global name looked up when run
except_lexer ==
    IF "get_lexer_by_name" \in ModuleNames
    THEN [exc |-> "none", lexer |-> <<"t", "e", "x", "t">>]
    ELSE [exc |-> "NameError", lexer |-> <<>>]

\* try: get_lexer_for_filename(filename)  except: get_lexer_by_name('text')
pick_lexer(filename) ==
    IF get_lexer_for_filename(filename).exc = "none"
    THEN get_lexer_for_filename(filename)
    ELSE except_lexer

code(ttl) ==
    IF Len(split(ttl)) < 2 THEN Raise("IndexError")
    ELSE LET filename == split(ttl)[2]
             lx == pick_lexer(filename)
         IN  IF lx.exc # "none" THEN Raise(lx.exc)
             ELSE IF filename \notin files THEN Raise("IOError")
             ELSE Ok(<<Lit("\\begin{frame}[fragile,t]"),
                       Tok("\\frametitle{Code:}", filename),
                       [k |-> "highlight", a |-> filename, lexer |-> lx.lexer],
                       Lit("\\end{frame}")>>)

-----------------------------------------------------------------------------
(* image *)

\* dict(pairs).items(): one pair per key, holding the last value given for it,
\* in the order of the dict's hash table
RECURSIVE SortByRank(_)
SortByRank(S) ==
    IF S = {} THEN <<>>
    ELSE LET k == CHOOSE x \in S : \A y \in S : hashrank[x] <= hashrank[y]
         IN  <<k>> \o SortByRank(S \ {k})

LastValue(pairs, k) ==
    pairs[CHOOSE n \in 1..Len(pairs) :
              pairs[n].k = k /\ \A m \in (n + 1)..Len(pairs) : pairs[m].k # k].val

dict_items(pairs) ==
    LET keys == SortByRank({pairs[n].k : n \in 1..Len(pairs)})
    IN  [n \in 1..Len(keys) |-> Pair(keys[n], LastValue(pairs, keys[n]))]

\* ",".join(parts)
RECURSIVE join(_)
join(parts) ==
    IF parts = <<>> THEN <<>>
    ELSE IF Len(parts) = 1 THEN parts[1]
    ELSE parts[1] \o <<",">> \o join(Tail(parts))

image(ttl, options) ==
    LET opts == IF Truthy(options) THEN options ELSE PyStr(<<>>)
    IN  IF \E n \in 1..Len(Elements(opts)) : Elements(opts)[n].t # "tuple"
        THEN Raise("ValueError")
        ELSE LET its == dict_items(Elements(opts))
                 str == join([n \in 1..Len(its) |->
                                 its[n].k \o <<"=">> \o Format(its[n].val)])
             IN  IF Len(split(ttl)) < 2 THEN Raise("IndexError")
                 ELSE Ok(<<Lit("\\frame[shrink]"),
                           [k |-> "\\pgfimage", a |-> split(ttl)[2], options |-> str]>>)

-----------------------------------------------------------------------------
(* frame *)

include == <<"i", "n", "c", "l", "u", "d", "e">>
image_  == <<"i", "m", "a", "g", "e">>

\* a dispatch on the first token of the title
frame_by_token(ttl, its) ==
    IF split(ttl)[1] = include THEN code(ttl)
    ELSE IF split(ttl)[1] = image_ THEN image(ttl, its)
    ELSE Then(Ok(<<Lit("\\frame"), Tok("\\frametitle", _escape_output(ttl))>>),
              itemize(its))

frame(ttl, its) ==
    IF startswith(ttl, include) THEN code(ttl)
    ELSE IF startswith(ttl, image_) THEN image(ttl, its)
    ELSE Then(Ok(<<Lit("\\frame"), Tok("\\frametitle", _escape_output(ttl))>>),
              itemize(its))

-----------------------------------------------------------------------------
(* header, footer *)

\* the option names header reads
k_highlight_style == <<"h", "i", "g", "h", "l", "i", "g", "h", "t", "_", "s", "t", "y", "l", "e">>
k_title     == <<"t", "i", "t", "l", "e">>
k_author    == <<"a", "u", "t", "h", "o", "r">>
k_institute == <<"i", "n", "s", "t", "i", "t", "u", "t", "e">>
k_date      == <<"d", "a", "t", "e">>
k_outline   == <<"o", "u", "t", "l", "i", "n", "e">>

\* metas.get(key, default)
get(m, key, default) == IF key \in DOMAIN m THEN m[key] ELSE default

\* the styles LatexFormatter(style=...) knows
KnownStyles == {<<"d", "e", "f", "a", "u", "l", "t">>, <<"e", "m", "a", "c", "s">>}

default_style == PyStr(<<"d", "e", "f", "a", "u", "l", "t">>)
default_title ==
    PyStr(<<"E", "x", "a", "m", "p", "l", "e", " ", "P", "r", "e", "s", "e", "n", "t", "a", "t", "i", "o", "n">>)
default_author ==
    PyStr(<<"A", "r", "t", "h", "u", "r", " ", "K", "o", "z", "i", "e", "l">>)
default_date == PyStr(<<"\\", "t", "o", "d", "a", "y">>)

\* the outline frame without the section-start hook
outline_frame_only ==
    <<Lit("\\section*{Outline} \\frame{\\tableofcontents}")>>

outline_part ==
    <<Lit("\\section*{Outline} \\frame{\\tableofcontents}"),
      Lit("\\AtBeginSection[]{\\frame{\\tableofcontents[currentsection]}}")>>

header(m) ==
    LET style == get(m, k_highlight_style, default_style)
    IN  IF ~(style.t = "str" /\ style.s \in KnownStyles) THEN Raise("ClassNotFound")
        ELSE Ok(<<Lit("\\documentclass[slidestop,red]{beamer}"),
                  Lit("\\usepackage[utf8]{inputenc}"),
                  Lit("\\usepackage{fancyvrb,color}"),
                  Tok("get_style_defs", style.s),
                  Lit("\\usetheme{Antibes}"),
                  Lit("\\setbeamertemplate{footline}[frame number]"),
                  Lit("\\usecolortheme{lily}"),
                  Lit("\\beamertemplateshadingbackground{blue!5}{yellow!10}"),
                  Tok("\\title", Format(get(m, k_title, default_title))),
                  Tok("\\author", Format(get(m, k_author, default_author))),
                  Tok("\\institute", Format(get(m, k_institute, PyStr(<<>>)))),
                  Tok("\\date", Format(get(m, k_date, default_date))),
                  Lit("\\begin{document}"),
                  Lit("\\frame{\\titlepage}")>>
                \o (IF Truthy(get(m, k_outline, PyBool(TRUE)))
                    THEN outline_part ELSE <<>>))

footer == <<Lit("\\end{document}")>>

-----------------------------------------------------------------------------
(* The environment and the idle values of the parts a specification leaves out *)

t_a_py   == <<"a", ".", "p", "y">>
t_a_txt  == <<"a", ".", "t", "x", "t">>
t_no_py  == <<"n", "o", ".", "p", "y">>
t_width  == <<"w", "i", "d", "t", "h">>
t_height == <<"h", "e", "i", "g", "h", "t">>

\* the files that exist and are readable
ReadableFiles == {t_a_py, t_a_txt}

OptionNames == {t_width, t_height}

\* every order a dict may yield the option names in
HashRanks == {r \in [OptionNames -> 1..Cardinality(OptionNames)] :
                  \A x, y \in OptionNames : x # y => r[x] # r[y]}

Pending == [exc |-> "pending", out |-> <<>>]

EscIdle  == text = <<>> /\ arg = <<>> /\ todo = {} /\ epc = "idle" /\ calls = 0
CallIdle == result = Pending /\ call = "idle"
MainIdle ==
    /\ file = PyNone /\ doc = PyNone
    /\ it1 = [l |-> <<>>, i |-> 1] /\ it2 = [l |-> <<>>, i |-> 1]
    /\ it3 = [l |-> <<>>, i |-> 1]
    /\ out = <<>> /\ pc = "idle" /\ ret = Pending
ArgsIdle == frames = <<>> /\ items = PyNone /\ metas = <<>>
EnvFixed ==
    /\ files = ReadableFiles
    /\ hashrank = CHOOSE r \in HashRanks : r[t_width] = 1

-----------------------------------------------------------------------------
(* SpecEscape: _escape_output, one key of dic per step, applied again to   *)
(* its own result up to MaxCalls times                                     *)

MaxLen == 2
MaxCalls == 2

\* the reserved characters & $ % # _ { }
Reserved == {"&", "$", "%", "#", "_", "{", "}"}

Alphabet == Reserved \cup {"\\", "a"}

InitEscape ==
    /\ arg \in BSeq(Alphabet, MaxLen)
    /\ text = arg
    /\ todo = dicKeys
    /\ epc = "iter"
    /\ calls = 1
    /\ CallIdle /\ MainIdle /\ ArgsIdle /\ EnvFixed

EscapeOnly ==
    UNCHANGED <<frames, items, metas, files, hashrank, callVars, mainVars>>

\* for i, j in dic.iteritems(): text = text.replace(i, j)
EscapeStep ==
    /\ epc = "iter"
    /\ \E i \in todo :
          /\ text' = replace(text, i, dic(i))
          /\ todo' = todo \ {i}
    /\ UNCHANGED <<arg, epc, calls>>
    /\ EscapeOnly

\* return text
EscapeReturn ==
    /\ epc = "iter"
    /\ todo = {}
    /\ epc' = "returned"
    /\ UNCHANGED <<text, arg, todo, calls>>
    /\ EscapeOnly

\* _escape_output(<the text returned>)
EscapeAgain ==
    /\ epc = "returned"
    /\ calls < MaxCalls
    /\ todo' = dicKeys
    /\ epc' = "iter"
    /\ calls' = calls + 1
    /\ UNCHANGED <<text, arg>>
    /\ EscapeOnly

NextEscape ==
    \/ EscapeStep
    \/ EscapeReturn
    \/ EscapeAgain

SpecEscape == InitEscape /\ [][NextEscape]_vars

\* each reserved character preceded by a backslash, every other one kept
RECURSIVE EscapedCharwise(_)
EscapedCharwise(s) ==
    IF s = <<>> THEN <<>>
    ELSE (IF Head(s) \in Reserved THEN <<"\\", Head(s)>> ELSE <<Head(s)>>)
         \o EscapedCharwise(Tail(s))

RECURSIVE EscapedTimes(_, _)
EscapedTimes(s, n) == IF n = 0 THEN s ELSE EscapedCharwise(EscapedTimes(s, n - 1))

HasReserved(s) == \E n \in 1..Len(s) : s[n] \in Reserved

\* C5: whatever order the seven replacements are applied in, _escape_output
\* returns its argument with each of & $ % # _ { } preceded by a backslash and
\* every other character unchanged and in place; a text with no reserved
\* character (the empty one included) is returned unchanged.
C5_EscapeCharwise ==
    (epc = "returned" /\ calls = 1) =>
        /\ text = EscapedCharwise(arg)
        /\ text = _escape_output(arg)
        /\ (~HasReserved(arg) => text = arg)

C5_Witness ==
    /\ epc = "returned" /\ calls = 1
    /\ arg = <<"_", "&">>
    /\ text = <<"\\", "_", "\\", "&">>

\* C9 as stated: applying _escape_output to its own output returns that
\* output unchanged.
C9_Idempotent ==
    (epc = "returned" /\ calls = 2) => text = _escape_output(arg)

\* C9 amended: every application escapes the reserved characters again,
\* whether or not a backslash precedes them (\& becomes \\&); the output of a
\* further application equals the output of the first exactly when the text
\* holds no reserved character.
C9_ReEscapes ==
    (epc = "returned" /\ calls >= 2) =>
        /\ text = EscapedTimes(arg, calls)
        /\ (text = EscapedCharwise(arg) <=> ~HasReserved(arg))

C9_Witness ==
    /\ epc = "returned" /\ calls = 2
    /\ arg = <<"&">>
    /\ text = <<"\\", "\\", "&">>

-----------------------------------------------------------------------------
(* SpecItemize: itemize applied to every item list of at most MaxNodes      *)
(* nodes (a leaf, a wrapper and each further pair of a wrapper count one)   *)

MaxNodes == 3

LeafTexts == {<<"a">>, <<"_">>}
Labels    == {<<"L">>, <<"#">>}

RECURSIVE ListsOfSize(_), ItemsOfSize(_)

\* the items of exactly n nodes: a leaf text; a wrapper around one pair
\* (label, nested-list) or (label, None); a wrapper around two pairs
ItemsOfSize(n) ==
    (IF n = 1 THEN {PyStr(s) : s \in LeafTexts}
                   \cup {PyList(<<Pair(b, PyNone)>>) : b \in Labels}
     ELSE {})
    \cup {PyList(<<Pair(b, PyList(sub))>>) : b \in Labels, sub \in ListsOfSize(n - 1)}
    \cup UNION {{PyList(<<Pair(b1, PyList(s1)), Pair(b2, PyList(s2))>>) :
                    b1 \in Labels, b2 \in Labels,
                    s1 \in ListsOfSize(j), s2 \in ListsOfSize(n - 2 - j)} :
                j \in 0..(n - 2)}

ListsOfSize(n) ==
    IF n = 0 THEN {<<>>}
    ELSE UNION {{<<it>> \o rest : it \in ItemsOfSize(m), rest \in ListsOfSize(n - m)} :
                m \in 1..n}

ItemLists == UNION {ListsOfSize(n) : n \in 0..MaxNodes}

InitItemize ==
    /\ items \in {PyList(l) : l \in ItemLists}
    /\ frames = <<>> /\ metas = <<>>
    /\ result = Pending /\ call = "pending"
    /\ EscIdle /\ MainIdle /\ EnvFixed

CallItemize ==
    /\ call = "pending"
    /\ result' = itemize(items)
    /\ call' = "returned"
    /\ UNCHANGED <<frames, items, metas, files, hashrank, escVars, mainVars>>

NextItemize == CallItemize

SpecItemize == InitItemize /\ [][NextItemize]_vars

\* C6: for an item list of leaf texts and single-pair wrappers, nested to any
\* depth, itemize emits a list-open, one bulleted entry per item in input
\* order, and a list-close; a leaf's entry carries its escaped text, a nested
\* item's entry its escaped label, immediately followed by the complete
\* itemize output of its nested list.
RECURSIVE RenderedList(_), RenderedEntries(_), RenderedPairs(_)
RenderedPairs(ps) ==
    IF ps = <<>> THEN <<>>
    ELSE <<Tok("\\item", EscapedCharwise(Head(ps).k))>>
         \o RenderedList(Head(ps).val.l) \o RenderedPairs(Tail(ps))
RenderedEntries(l) ==
    IF l = <<>> THEN <<>>
    ELSE (IF Head(l).t = "str"
          THEN <<Tok("\\item", EscapedCharwise(Head(l).s))>>
          ELSE RenderedPairs(Head(l).l))
         \o RenderedEntries(Tail(l))
RenderedList(l) ==
    <<Lit("\\begin{itemize}")>> \o RenderedEntries(l) \o <<Lit("\\end{itemize}")>>

\* every wrapper of l, at any depth, holds between lo and hi pairs, each of
\* them a (label, list) pair
RECURSIVE Wrappers(_, _, _)
Wrappers(l, lo, hi) ==
    \A n \in 1..Len(l) :
        l[n].t = "list" =>
            /\ Len(l[n].l) \in lo..hi
            /\ \A m \in 1..Len(l[n].l) :
                   /\ l[n].l[m].val.t = "list"
                   /\ Wrappers(l[n].l[m].val.l, lo, hi)

\* some wrapper of l, at any depth, holds two pairs or more
RECURSIVE HasManyPairs(_)
HasManyPairs(l) ==
    \E n \in 1..Len(l) :
        /\ l[n].t = "list"
        /\ \/ Len(l[n].l) >= 2
           \/ \E m \in 1..Len(l[n].l) :
                  l[n].l[m].val.t = "list" /\ HasManyPairs(l[n].l[m].val.l)

C6_ItemizeNested ==
    (call = "returned" /\ Wrappers(items.l, 1, 1)) =>
        result = Ok(RenderedList(items.l))

C6_Witness ==
    /\ call = "returned"
    /\ items = PyList(<<PyList(<<Pair(<<"#">>,
                   PyList(<<PyStr(<<"a">>), PyStr(<<"_">>)>>))>>)>>)
    /\ result = Ok(<<Lit("\\begin{itemize}"),
                     Tok("\\item", <<"\\", "#">>),
                     Lit("\\begin{itemize}"),
                     Tok("\\item", <<"a">>),
                     Tok("\\item", <<"\\", "_">>),
                     Lit("\\end{itemize}"),
                     Lit("\\end{itemize}")>>)

\* C10: a wrapper holding k >= 2 (label, nested-list) pairs yields k entries,
\* the i-th carrying the i-th pair's escaped label and followed by the
\* itemize output of the i-th pair's nested list.
C10_EachPairRendered ==
    (call = "returned" /\ Wrappers(items.l, 1, 2) /\ HasManyPairs(items.l)) =>
        result = Ok(RenderedList(items.l))

-----------------------------------------------------------------------------
(* SpecFrame: frame applied to a title and its items or options             *)

MaxOptions == 2

t_include_a_py == <<"i", "n", "c", "l", "u", "d", "e", " ", "a", ".", "p", "y">>
t_include_a_txt == <<"i", "n", "c", "l", "u", "d", "e", " ", "a", ".", "t", "x", "t">>
t_include_no_py == <<"i", "n", "c", "l", "u", "d", "e", " ", "n", "o", ".", "p", "y">>
t_include == <<"i", "n", "c", "l", "u", "d", "e">>
t_includes == <<"i", "n", "c", "l", "u", "d", "e", "s">>
t_included_a_py == <<"i", "n", "c", "l", "u", "d", "e", "d", " ", "a", ".", "p", "y">>
t_image_d_png == <<"i", "m", "a", "g", "e", " ", "d", ".", "p", "n", "g">>
t_image == <<"i", "m", "a", "g", "e">>
t_images_of_X == <<"i", "m", "a", "g", "e", "s", " ", "o", "f", " ", "X">>
t_imagine == <<"i", "m", "a", "g", "i", "n", "e">>
t_Welcome == <<"W", "e", "l", "c", "o", "m", "e">>
t_a_b == <<"a", "_", "b">>
t_my_include == <<"m", "y", " ", "i", "n", "c", "l", "u", "d", "e", " ", "a", ".", "p", "y">>

Titles ==
    {t_include_a_py, t_include_a_txt, t_include_no_py, t_include, t_includes,
     t_included_a_py, t_image_d_png, t_image, t_images_of_X, t_imagine,
     t_Welcome, t_a_b, t_my_include, <<>>}

OptionValues == {PyStr(<<"5", "c", "m">>), PyStr(<<"3", "c", "m">>)}

OptionLists == BSeq({Pair(k, v) : k \in OptionNames, v \in OptionValues}, MaxOptions)

FrameItems ==
    {PyList(l) : l \in OptionLists}
    \cup {PyNone, PyStr(<<"x">>),
          PyList(<<PyStr(<<"H", "i", " ", "t", "h", "e", "r", "e">>)>>),
          PyList(<<PyStr(<<"a">>), PyList(<<Pair(<<"L">>, PyList(<<PyStr(<<"_">>)>>))>>)>>)}

InitFrame ==
    /\ frames \in Titles
    /\ items \in FrameItems
    /\ files \in SUBSET ReadableFiles
    /\ hashrank \in HashRanks
    /\ metas = <<>>
    /\ result = Pending /\ call = "pending"
    /\ EscIdle /\ MainIdle

CallFrame ==
    /\ call = "pending"
    /\ result' = frame(frames, items)
    /\ call' = "returned"
    /\ UNCHANGED <<frames, items, metas, files, hashrank, escVars, mainVars>>

NextFrame == CallFrame

SpecFrame == InitFrame /\ [][NextFrame]_vars

\* what frame returned, by the command its markup opens with
IsCodeFrame(r)   == r.exc = "none" /\ r.out[1] = Lit("\\begin{frame}[fragile,t]")
IsImageFrame(r)  == r.exc = "none" /\ r.out[1] = Lit("\\frame[shrink]")
IsNormalFrame(r) == r.exc = "none" /\ r.out[1] = Lit("\\frame")

\* the first token of a title
FirstToken(s) == split(s)[1]

IsLeafList(x) == x.t = "list" /\ \A n \in 1..Len(x.l) : x.l[n].t = "str"
IsPairList(x) == x.t = "list" /\ \A n \in 1..Len(x.l) : x.l[n].t = "tuple"

\* C2 as stated: every title whose first token is neither exactly "include"
\* nor exactly "image" renders a normal titled bullet frame.
C2_ByFirstToken ==
    (call = "returned" /\ IsLeafList(items)
        /\ FirstToken(frames) # include /\ FirstToken(frames) # image_) =>
        IsNormalFrame(result)

\* C2 amended: classification follows the literal prefix of the title.  What
\* frame returns is a code frame iff the title starts with "include", an image
\* frame iff it does not and starts with "image", and a normal frame (escaped
\* title, then the itemize output) iff it starts with neither; a title that
\* starts with either prefix is never rendered as a normal frame.
C2_ByPrefix ==
    call = "returned" =>
        /\ result.exc = "none" =>
              /\ IsCodeFrame(result) <=> startswith(frames, include)
              /\ IsImageFrame(result) <=>
                     (~startswith(frames, include) /\ startswith(frames, image_))
              /\ IsNormalFrame(result) <=>
                     (~startswith(frames, include) /\ ~startswith(frames, image_))
        /\ (startswith(frames, include) \/ startswith(frames, image_)) =>
              ~IsNormalFrame(result)
        /\ (~startswith(frames, include) /\ ~startswith(frames, image_)
                /\ IsLeafList(items)) =>
              /\ IsNormalFrame(result)
              /\ result.out[2] = Tok("\\frametitle", EscapedCharwise(frames))
              /\ SubSeq(result.out, 3, Len(result.out)) = RenderedList(items.l)

C2_Witness ==
    /\ call = "returned"
    /\ frames = t_images_of_X
    /\ items = PyList(<<>>)
    /\ IsImageFrame(result)
    /\ result.out[2].a = <<"o", "f">>

\* C3: an include frame naming a readable file for which no lexer matches is
\* rendered as a code frame with the plain-text lexer; no error is raised.
C3_PlainTextFallback ==
    (call = "returned" /\ startswith(frames, include) /\ Len(split(frames)) >= 2
        /\ split(frames)[2] \in files
        /\ \A p \in LexerPatterns : ~endswith(split(frames)[2], p)) =>
        /\ IsCodeFrame(result)
        /\ result.out[3].lexer = <<"t", "e", "x", "t">>

\* ",".join of "key=value" over the authored pairs, in authored order
AuthoredOptions(x) ==
    IF x.t # "list" THEN <<>>
    ELSE join([n \in 1..Len(x.l) |-> x.l[n].k \o <<"=">> \o x.l[n].val.s])

\* C7: an image frame's options string is the comma-joined key=value list of
\* the authored option pairs, one entry per pair in authored order (empty for
\* an empty or absent sequence), and the image path is the title's second token.
C7_OptionsAsAuthored ==
    (call = "returned" /\ FirstToken(frames) = image_ /\ Len(split(frames)) >= 2
        /\ (items = PyNone \/ IsPairList(items))) =>
        /\ IsImageFrame(result)
        /\ result.out[2].a = split(frames)[2]
        /\ result.out[2].options = AuthoredOptions(items)

-----------------------------------------------------------------------------
(* SpecHeader: header applied to a metadata map of at most MaxMetas pairs   *)

MaxMetas == 2

t_metas == <<"m", "e", "t", "a", "s">>
t_Demo  == <<"D", "e", "m", "o">>
t_emacs == <<"e", "m", "a", "c", "s">>
t_bogus == <<"b", "o", "g", "u", "s">>

\* dict(pairs): each key mapped to the last value given for it
dict(pairs) ==
    [k \in {pairs[n].k : n \in 1..Len(pairs)} |-> LastValue(pairs, k)]

MetaPairs ==
    {Pair(k_outline, v) : v \in {PyBool(TRUE), PyBool(FALSE), PyNone,
                                 PyStr(<<>>), PyStr(<<"n", "o">>)}}
    \cup {Pair(k_title, PyStr(t_Demo)), Pair(k_title, PyStr(<<"T">>)), Pair(k_author, PyStr(<<"A", "_", "B">>)),
          Pair(k_institute, PyStr(<<"I">>)), Pair(k_date, PyStr(<<"2", "0", "2", "0">>)),
          Pair(k_highlight_style, PyStr(t_emacs)),
          Pair(k_highlight_style, PyStr(t_bogus))}

InitHeader ==
    /\ metas \in {dict(ps) : ps \in BSeq(MetaPairs, MaxMetas)}
    /\ frames = <<>> /\ items = PyNone
    /\ result = Pending /\ call = "pending"
    /\ EscIdle /\ MainIdle /\ EnvFixed

CallHeader ==
    /\ call = "pending"
    /\ result' = header(metas)
    /\ call' = "returned"
    /\ UNCHANGED <<frames, items, metas, files, hashrank, escVars, mainVars>>

NextHeader == CallHeader

SpecHeader == InitHeader /\ [][NextHeader]_vars

OutlineFrame ==
    Lit("\\section*{Outline} \\frame{\\tableofcontents}")
SectionStartHook ==
    Lit("\\AtBeginSection[]{\\frame{\\tableofcontents[currentsection]}}")

Occurrences(seq, x) == Cardinality({n \in 1..Len(seq) : seq[n] = x})

NotOutline(x) == x # OutlineFrame /\ x # SectionStartHook

\* C8: the header holds the outline frame and the section-start hook together
\* when the outline option is absent or true and neither when it is false;
\* never one without the other; the rest of the header is the same either way.
C8_OutlineTogether ==
    (call = "returned" /\ result.exc = "none") =>
        /\ Occurrences(result.out, OutlineFrame)
              = Occurrences(result.out, SectionStartHook)
        /\ (k_outline \notin DOMAIN metas \/ metas[k_outline] = PyBool(TRUE)) =>
              /\ Occurrences(result.out, OutlineFrame) = 1
              /\ SubSeq(result.out, Len(result.out) - 1, Len(result.out))
                    = <<OutlineFrame, SectionStartHook>>
        /\ (k_outline \in DOMAIN metas /\ metas[k_outline] = PyBool(FALSE)) =>
              Occurrences(result.out, OutlineFrame) = 0
        /\ \A b \in BOOLEAN :
              SelectSeq(result.out, NotOutline)
                 = SelectSeq(header([k \in DOMAIN metas \cup {k_outline} |->
                                        IF k = k_outline THEN PyBool(b) ELSE metas[k]]).out,
                             NotOutline)

C8_Witness ==
    /\ call = "returned" /\ result.exc = "none"
    /\ k_outline \in DOMAIN metas /\ metas[k_outline] = PyBool(FALSE)
    /\ k_title \in DOMAIN metas
    /\ Len(result.out) = 14

-----------------------------------------------------------------------------
(* Spec: main, one statement (or loop turn) per step                        *)

MaxSections == 2

t_Intro  == <<"I", "n", "t", "r", "o">>
t_Basics == <<"B", "a", "s", "i", "c", "s">>
t_More   == <<"M", "o", "r", "e">>

f_Welcome  == Pair(t_Welcome, PyList(<<PyStr(<<"H", "i">>)>>))
f_a_b      == Pair(t_a_b, PyList(<<PyStr(<<"a">>), PyStr(<<"#">>)>>))
f_code     == Pair(t_include_a_py, PyNone)
f_missing  == Pair(t_include_no_py, PyNone)
f_nolexer  == Pair(t_include_a_txt, PyNone)
f_image    == Pair(t_image_d_png, PyList(<<Pair(t_width, PyStr(<<"5", "c", "m">>))>>))
f_noitems  == Pair(t_Welcome, PyNone)

\* the sections documents are built from
Sections ==
    {Pair(t_Intro, PyList(<<Pair(t_Basics, PyList(<<f_Welcome>>))>>)),
     Pair(t_Intro, PyList(<<Pair(t_Basics, PyList(<<f_a_b, f_a_b>>)),
                            Pair(t_Basics, PyList(<<f_image, f_code>>))>>)),
     Pair(t_a_b, PyList(<<Pair(t_More, PyList(<<>>)),
                          Pair(t_Basics, PyList(<<f_code, f_Welcome>>))>>)),
     Pair(t_More, PyList(<<>>)),
     Pair(t_More, PyList(<<Pair(t_Basics, PyList(<<f_Welcome, f_missing>>)),
                           Pair(t_More, PyList(<<f_a_b>>))>>)),
     Pair(t_Basics, PyList(<<Pair(t_More, PyList(<<f_nolexer>>))>>)),
     Pair(t_Intro, PyList(<<Pair(t_Basics, PyList(<<f_Welcome, f_noitems>>))>>)),
     Pair(t_Intro, PyNone),
     Pair(t_Intro, PyList(<<Pair(t_Basics, PyList(<<f_Welcome>>)),
                            Pair(t_More, PyNone)>>))}

\* the leading metas entries
MetasEntries ==
    {Pair(t_metas, PyList(<<Pair(k_title, PyStr(t_Demo))>>)),
     Pair(t_metas, PyList(<<Pair(k_outline, PyBool(FALSE)),
                            Pair(k_highlight_style, PyStr(t_emacs))>>)),
     Pair(t_metas, PyList(<<Pair(k_highlight_style, PyStr(t_bogus))>>)),
     Pair(t_metas, PyList(<<>>)),
     Pair(t_metas, PyNone)}

\* what the loader yields: a list of sections, led by a metas entry or not;
\* None for an empty file
Documents ==
    {PyList(l) : l \in BSeq(Sections, MaxSections)}
    \cup {PyList(<<m>> \o l) : m \in MetasEntries, l \in BSeq(Sections, MaxSections)}
    \cup {PyNone}

Init ==
    /\ file \in Documents
    /\ doc = PyNone
    /\ metas = <<>>
    /\ it1 = [l |-> <<>>, i |-> 1]
    /\ it2 = [l |-> <<>>, i |-> 1]
    /\ it3 = [l |-> <<>>, i |-> 1]
    /\ out = <<>>
    /\ pc = "load"
    /\ ret = Pending
    /\ frames = <<>> /\ items = PyNone
    /\ EscIdle /\ CallIdle /\ EnvFixed

\* an exception handled by handing back what was accumulated
return_partial(e, acc) == [exc |-> e, out |-> acc]

\* an exception leaves main: the caller receives it, and nothing of out
raised(e, acc) == Raise(e)

Fail(e) ==
    /\ pc' = "error"
    /\ ret' = raised(e, out)

\* the metas entry left in doc
keep_first(d) == d

\* del doc[0]
del_first(d) == PyList(Tail(d.l))

\* iter(x) of a for statement: the iterator, positioned at the first element
iter(x) == [l |-> Elements(x), i |-> 1]

exhausted(it) == it.i > Len(it.l)
current(it)   == it.l[it.i]
advance(it)   == [it EXCEPT !.i = @ + 1]

MainOnly == UNCHANGED <<file, files, hashrank, escVars, callVars>>

\* doc = yaml.load(file, Loader=PairLoader)
Load ==
    /\ pc = "load"
    /\ doc' = file
    /\ pc' = "metas"
    /\ UNCHANGED <<metas, it1, it2, it3, out, ret, frames, items>>
    /\ MainOnly

\* metas = {}; if doc[0][0] == 'metas': metas = dict(doc[0][1]); del doc[0]
Metas ==
    /\ pc = "metas"
    /\ IF doc.t # "list" THEN Fail("TypeError") /\ UNCHANGED <<doc, metas>>
       ELSE IF doc.l = <<>> THEN Fail("IndexError") /\ UNCHANGED <<doc, metas>>
       ELSE IF doc.l[1].k # t_metas
            THEN pc' = "header" /\ UNCHANGED <<doc, metas, ret>>
       ELSE IF doc.l[1].val.t # "list"
            THEN Fail("TypeError") /\ UNCHANGED <<doc, metas>>
       ELSE /\ metas' = dict(doc.l[1].val.l)
            /\ doc' = del_first(doc)
            /\ pc' = "header"
            /\ UNCHANGED ret
    /\ UNCHANGED <<it1, it2, it3, out, frames, items>>
    /\ MainOnly

\* out = header(metas), and the sections loop is entered
Header ==
    /\ pc = "header"
    /\ IF header(metas).exc # "none"
       THEN Fail(header(metas).exc) /\ UNCHANGED <<out, it1>>
       ELSE /\ out' = header(metas).out
            /\ it1' = iter(doc)
            /\ pc' = "sections"
            /\ UNCHANGED ret
    /\ UNCHANGED <<doc, metas, it2, it3, frames, items>>
    /\ MainOnly

\* for sections, doc in doc: out += section(sections), and the subsections
\* loop is entered
NextSection ==
    /\ pc = "sections"
    /\ ~exhausted(it1)
    /\ it1' = advance(it1)
    /\ doc' = current(it1).val
    /\ out' = out \o section(current(it1).k)
    /\ IF ~Iterable(current(it1).val)
       THEN Fail("TypeError") /\ UNCHANGED it2
       ELSE /\ it2' = iter(current(it1).val)
            /\ pc' = "subsections"
            /\ UNCHANGED ret
    /\ UNCHANGED <<metas, it3, frames, items>>
    /\ MainOnly

\* for subsections, doc in doc: out += subsection(subsections), and the
\* frames loop is entered
NextSubsection ==
    /\ pc = "subsections"
    /\ ~exhausted(it2)
    /\ it2' = advance(it2)
    /\ IF current(it2).t # "tuple"
       THEN Fail("ValueError") /\ UNCHANGED <<doc, out, it3>>
       ELSE /\ doc' = current(it2).val
            /\ out' = out \o subsection(current(it2).k)
            /\ IF ~Iterable(current(it2).val)
               THEN Fail("TypeError") /\ UNCHANGED it3
               ELSE /\ it3' = iter(current(it2).val)
                    /\ pc' = "frames"
                    /\ UNCHANGED ret
    /\ UNCHANGED <<metas, it1, frames, items>>
    /\ MainOnly

\* the subsections loop ends
EndSubsections ==
    /\ pc = "subsections"
    /\ exhausted(it2)
    /\ pc' = "sections"
    /\ UNCHANGED <<doc, metas, it1, it2, it3, out, ret, frames, items>>
    /\ MainOnly

\* for frames, items in doc: out += frame(frames, items)
NextFrameOfDoc ==
    /\ pc = "frames"
    /\ ~exhausted(it3)
    /\ it3' = advance(it3)
    /\ IF current(it3).t # "tuple"
       THEN Fail("ValueError") /\ UNCHANGED <<out, frames, items>>
       ELSE /\ frames' = current(it3).k
            /\ items' = current(it3).val
            /\ IF frame(current(it3).k, current(it3).val).exc # "none"
               THEN Fail(frame(current(it3).k, current(it3).val).exc) /\ UNCHANGED out
               ELSE /\ out' = out \o frame(current(it3).k, current(it3).val).out
                    /\ UNCHANGED <<pc, ret>>
    /\ UNCHANGED <<doc, metas, it1, it2>>
    /\ MainOnly

\* the frames loop ends
EndFrames ==
    /\ pc = "frames"
    /\ exhausted(it3)
    /\ pc' = "subsections"
    /\ UNCHANGED <<doc, metas, it1, it2, it3, out, ret, frames, items>>
    /\ MainOnly

\* the sections loop ends: out += footer(); return out.encode('utf-8')
Footer ==
    /\ pc = "sections"
    /\ exhausted(it1)
    /\ out' = out \o footer
    /\ ret' = Ok(out \o footer)
    /\ pc' = "done"
    /\ UNCHANGED <<doc, metas, it1, it2, it3, frames, items>>
    /\ MainOnly

Next ==
    \/ Load
    \/ Metas
    \/ Header
    \/ NextSection
    \/ NextSubsection
    \/ EndSubsections
    \/ NextFrameOfDoc
    \/ EndFrames
    \/ Footer

Spec == Init /\ [][Next]_vars

\* the markup of a well-formed list of frames, subsections, sections
RECURSIVE FramesMarkup(_), SubsectionsMarkup(_), SectionsMarkup(_)
FramesMarkup(l) ==
    IF l = <<>> THEN <<>>
    ELSE frame(Head(l).k, Head(l).val).out \o FramesMarkup(Tail(l))
SubsectionsMarkup(l) ==
    IF l = <<>> THEN <<>>
    ELSE <<Tok("\\subsection", EscapedCharwise(Head(l).k))>>
         \o FramesMarkup(Head(l).val.l) \o SubsectionsMarkup(Tail(l))
SectionsMarkup(l) ==
    IF l = <<>> THEN <<>>
    ELSE <<Tok("\\section", EscapedCharwise(Head(l).k))>>
         \o SubsectionsMarkup(Head(l).val.l) \o SectionsMarkup(Tail(l))

LedByMetas(d) == d.l # <<>> /\ d.l[1].k = t_metas

DocumentMarkup(d) ==
    header(IF LedByMetas(d) THEN dict(d.l[1].val.l) ELSE <<>>).out
    \o SectionsMarkup(IF LedByMetas(d) THEN Tail(d.l) ELSE d.l)
    \o <<Lit("\\end{document}")>>

SectionHeadings(seq) == SelectSeq(seq, LAMBDA x : x.k = "\\section")

\* d has a first entry, its metas entry (if any) and every section and
\* subsection body is a list, and the header and every frame render
Renderable(d) ==
    /\ d.t = "list" /\ d.l # <<>>
    /\ LedByMetas(d) => d.l[1].val.t = "list"
    /\ header(IF LedByMetas(d) THEN dict(d.l[1].val.l) ELSE <<>>).exc = "none"
    /\ LET secs == IF LedByMetas(d) THEN Tail(d.l) ELSE d.l
       IN  \A i \in 1..Len(secs) :
               /\ secs[i].val.t = "list"
               /\ \A j \in 1..Len(secs[i].val.l) :
                      LET sub == secs[i].val.l[j]
                      IN  /\ sub.val.t = "list"
                          /\ \A n \in 1..Len(sub.val.l) :
                                 frame(sub.val.l[n].k, sub.val.l[n].val).exc = "none"

C4_AllOrNothing ==
    /\ ret.exc = "none" <=> pc = "done"
    /\ pc = "done" =>
          /\ ret.out = out
          /\ Head(ret.out) = Lit("\\documentclass[slidestop,red]{beamer}")
          /\ ret.out[Len(ret.out)] = Lit("\\end{document}")
    /\ pc # "done" => ret.out = <<>>
    /\ pc = "error" => ret.exc \notin {"none", "pending"}

C4_Witness ==
    /\ pc = "error"
    /\ ret = Raise("IOError")
    /\ Len(SectionHeadings(out)) = 2
    /\ Occurrences(out, Lit("\\frame")) >= 1

====
